---- MODULE Spec2Model ----
\* The knowledge-graph service of backend/services/knowledge_graph.py
\* (KnowledgeGraphService) over the store it reads and writes: the graph
\* builder, the relationship upsert, the discovery round, the batch run, the
\* recommendations and the visualization export; and calculate_aeo_score of
\* backend/services/enrichment.py.
EXTENDS Integers, Sequences, FiniteSets, TLC

VARIABLES
    products,      \* rows of the product query (products LEFT JOIN enriched_products)
    committed,     \* product_relationships as committed in the database
    table,         \* product_relationships as the connection sees it (open transaction included)
    graph,         \* self.graph
    client,        \* self.client is set (ANTHROPIC_API_KEY configured)
    builds,        \* SpecBuild: number of build_graph_from_db calls made
    buildStatus,   \* SpecBuild: outcome of the last build_graph_from_db call
    pc,            \* batch_analyze_all_products: "idle", "loop", "round", "done"
    batch,         \* its locals: product_ids, idx, total, processed, relationships_created
    observer,      \* progress_callback is supplied
    calls,         \* the progress_callback invocations made, in order
    cancelRequested, \* cancellation of the batch run has been requested
    started,       \* product ids for which a discovery round was started, in order
    round,         \* the analyze_product_relationships call in progress or just ended
    summary,       \* the dict the batch run returned
    upserts,       \* SpecStore: the _store_relationship calls made, in order
    recs,          \* SpecReco: the last get_recommendations call and its result
    viz,           \* SpecViz: the last get_graph_visualization_data call and its result
    swap,          \* SpecSwap: the build_graph_from_db call in progress and a reader's view
    scored         \* SpecScore: the last calculate_aeo_score call and its result

storeVars == <<products, committed, table, graph, client>>
buildVars == <<builds, buildStatus>>
batchVars == <<pc, batch, observer, calls, cancelRequested, started, round, summary>>
queryVars == <<upserts, recs, viz, swap, scored>>
vars == <<storeVars, buildVars, batchVars, queryVars>>

-----------------------------------------------------------------------------
\* Bounds of the model.

\* products of the catalog have ids 1..NumProducts
NumProducts == 2
\* rows of product_relationships a build snapshot starts with
MaxRelRows == 1
\* build_graph_from_db calls on one snapshot
MaxBuilds == 2

-----------------------------------------------------------------------------
\* Values.

\* SQL NULL in a text column (Python None)
NULL == "NULL"
\* SQL NULL in similarity_score (Python None); scores are tenths, 5 is 0.5
NullScore == 0 - 1
\* an edge attribute that was never set on the edge
NoScore == 0 - 2
NoAttr == "ABSENT"

ProductIds == 1..NumProducts
\* an id that is no row of products
DanglingId == NumProducts + 1

\* Python truthiness of a text column: None and '' are falsy
Truthy(s) == s # NULL /\ s # ""

\* the three discovered kinds, and a type that is none of them
DiscoveredTypes == {"SIMILAR_TO", "COMPLEMENTS", "ALTERNATIVE_TO"}

\* node keys: a product's key is its id, a category's is "category_" + name,
\* a brand's is "brand_" + name
ProductKey(id) == [kind |-> "product", id |-> id, name |-> ""]
CategoryKey(c) == [kind |-> "category", id |-> 0, name |-> c]
BrandKey(b) == [kind |-> "brand", id |-> 0, name |-> b]

-----------------------------------------------------------------------------
\* networkx.DiGraph: nodes with attributes, at most one edge per ordered pair.

EmptyGraph == [nodes |-> {}, edges |-> {}]

HasNode(g, k) == \E n \in g.nodes : n.key = k

\* DiGraph.add_node(k, **attrs): the node's attributes are set
AddNode(g, node) ==
    [g EXCEPT !.nodes = {n \in g.nodes : n.key # node.key} \cup {node}]

\* a node add_edge creates for an endpoint that is no node yet: no attributes
BareNode(k) ==
    [key |-> k, node_type |-> NoAttr, category |-> NoAttr, brand |-> NoAttr,
     name |-> NoAttr]

\* DiGraph.add_edge(u, v, **attrs): missing endpoints become nodes, the
\* attributes given overwrite those of an existing edge u -> v, the others stay
AddEdge(g, u, v, rtype, score, reasoning) ==
    LET old == {e \in g.edges : e.source = u /\ e.target = v}
        prev == IF old = {}
                THEN [source |-> u, target |-> v, relationship_type |-> NoAttr,
                      similarity_score |-> NoScore, reasoning |-> NoAttr]
                ELSE CHOOSE e \in old : TRUE
        new == [prev EXCEPT
                  !.relationship_type = rtype,
                  !.similarity_score = IF score = NoScore THEN @ ELSE score,
                  !.reasoning = IF reasoning = NoAttr THEN @ ELSE reasoning]
        nodes1 == IF HasNode(g, u) THEN g.nodes ELSE g.nodes \cup {BareNode(u)}
        nodes2 == IF \E n \in nodes1 : n.key = v THEN nodes1
                  ELSE nodes1 \cup {BareNode(v)}
    IN  [nodes |-> nodes2, edges |-> (g.edges \ old) \cup {new}]

-----------------------------------------------------------------------------
\* build_graph_from_db, one operator per loop of the method.
\* Each loop tests its end on the pair <<g, rows>> so that the graph built so
\* far is evaluated at every step of the loop.

RECURSIVE AddProductNodes(_, _)
AddProductNodes(g, rows) ==
    IF <<g, rows>>[2] = <<>> THEN g
    ELSE LET row == Head(rows)
         IN  AddProductNodes(
                 AddNode(g, [key |-> ProductKey(row.id), node_type |-> "product",
                             category |-> row.category, brand |-> row.brand,
                             name |-> NoAttr]),
                 Tail(rows))

RECURSIVE AddCategoryNodes(_, _)
AddCategoryNodes(g, rows) ==
    IF <<g, rows>>[2] = <<>> THEN g
    ELSE LET category == Head(rows).category
         IN  AddCategoryNodes(
                 IF category # NULL /\ Truthy(category)
                 THEN AddNode(g, [key |-> CategoryKey(category), node_type |-> "category",
                                  category |-> NoAttr, brand |-> NoAttr,
                                  name |-> category])
                 ELSE g,
                 Tail(rows))

RECURSIVE AddBrandNodes(_, _)
AddBrandNodes(g, rows) ==
    IF <<g, rows>>[2] = <<>> THEN g
    ELSE LET brand == Head(rows).brand
         IN  AddBrandNodes(
                 IF brand # NULL /\ Truthy(brand)
                 THEN AddNode(g, [key |-> BrandKey(brand), node_type |-> "brand",
                                  category |-> NoAttr, brand |-> NoAttr,
                                  name |-> brand])
                 ELSE g,
                 Tail(rows))

RECURSIVE AddRelationshipEdges(_, _)
AddRelationshipEdges(g, rels) ==
    IF <<g, rels>>[2] = <<>> THEN g
    ELSE LET row == Head(rels)
         IN  AddRelationshipEdges(
                 AddEdge(g, ProductKey(row.source_product_id),
                         ProductKey(row.target_product_id),
                         row.relationship_type, row.similarity_score, row.reasoning),
                 Tail(rels))

RECURSIVE AddBelongsToEdges(_, _)
AddBelongsToEdges(g, rows) ==
    IF <<g, rows>>[2] = <<>> THEN g
    ELSE LET row == Head(rows)
         IN  AddBelongsToEdges(
                 IF row.category # NULL /\ Truthy(row.category)
                 THEN AddEdge(g, ProductKey(row.id), CategoryKey(row.category),
                              "BELONGS_TO", NoScore, NoAttr)
                 ELSE g,
                 Tail(rows))

\* MADE_BY edges drawn to the category node instead of the brand node
RECURSIVE AddMadeByEdgesToCategory(_, _)
AddMadeByEdgesToCategory(g, rows) ==
    IF <<g, rows>>[2] = <<>> THEN g
    ELSE LET row == Head(rows)
         IN  AddMadeByEdgesToCategory(
                 IF row.brand # NULL /\ Truthy(row.brand)
                 THEN AddEdge(g, ProductKey(row.id), CategoryKey(row.category),
                              "MADE_BY", NoScore, NoAttr)
                 ELSE g,
                 Tail(rows))

RECURSIVE AddMadeByEdges(_, _)
AddMadeByEdges(g, rows) ==
    IF <<g, rows>>[2] = <<>> THEN g
    ELSE LET row == Head(rows)
         IN  AddMadeByEdges(
                 IF row.brand # NULL /\ Truthy(row.brand)
                 THEN AddEdge(g, ProductKey(row.id), BrandKey(row.brand),
                              "MADE_BY", NoScore, NoAttr)
                 ELSE g,
                 Tail(rows))

\* self.graph.clear() and the six loops, on the graph the service holds
BuildGraphFromDb(g, rows, rels) ==
    LET g0 == [g EXCEPT !.nodes = {}, !.edges = {}]
        g1 == AddProductNodes(g0, rows)
        g2 == AddCategoryNodes(g1, rows)
        g3 == AddBrandNodes(g2, rows)
        g4 == AddRelationshipEdges(g3, rels)
        g5 == AddBelongsToEdges(g4, rows)
    IN  AddMadeByEdges(g5, rows)

\* the outcome of build_graph_from_db: it returns self.graph and has no
\* failure path of its own
BuildOutcome(rows, rels) == "ok"

-----------------------------------------------------------------------------
\* The snapshots a build reads.

\* (category, brand) of a product row: absent, empty (an empty CSV cell is
\* stored as '') or named
Profiles ==
    {<<NULL, NULL>>, <<"", "Acme">>, <<"Audio", "">>, <<"Audio", "Acme">>,
     <<"Video", "Acme">>}

\* the rows of the product query for product id: one per enriched_products row
\* joined to it, one when there is none
RECURSIVE JoinRows(_, _, _)
JoinRows(profile, joined, id) ==
    IF id > NumProducts THEN <<>>
    ELSE LET row == [id |-> id, category |-> profile[id][1], brand |-> profile[id][2]]
         IN  (IF id \in joined THEN <<row, row>> ELSE <<row>>)
             \o JoinRows(profile, joined, id + 1)

\* SELECT id FROM products: the ids of the product rows
RowIds(rows) == {rows[i].id : i \in 1..Len(rows)}

\* the product rows a snapshot can hold: every product once, in id order, and
\* a product with two enrichment rows twice
Snapshots ==
    {JoinRows(profile, joined, 1) :
        profile \in [ProductIds -> Profiles],
        joined \in {{}, {1}}}

RelationshipRow(s, t, rtype, score, reasoning) ==
    [source_product_id |-> s, target_product_id |-> t, relationship_type |-> rtype,
     similarity_score |-> score, reasoning |-> reasoning]

\* the rows of product_relationships a snapshot can hold
StoredRows ==
    UNION {{RelationshipRow(s, t, rtype, 9, "r1") :
                t \in {(s % NumProducts) + 1, DanglingId},
                rtype \in {"SIMILAR_TO", "BELONGS_TO"}} : s \in ProductIds}

RECURSIVE SetsUpTo(_, _)
SetsUpTo(S, n) ==
    IF n = 0 THEN {{}}
    ELSE LET smaller == SetsUpTo(S, n - 1)
         IN  smaller \cup {t \cup {x} : t \in smaller, x \in S}

RECURSIVE SeqsUpTo(_, _)
SeqsUpTo(S, n) ==
    IF n = 0 THEN {<<>>}
    ELSE LET shorter == SeqsUpTo(S, n - 1)
         IN  shorter \cup {Append(q, x) : q \in shorter, x \in S}

TripleOf(row) ==
    <<row.source_product_id, row.target_product_id, row.relationship_type>>

\* no two rows of the table have the same (source, target, type)
UniqueTriples(rows) ==
    \A r1, r2 \in rows : TripleOf(r1) = TripleOf(r2) => r1 = r2

StoredTables == {t \in SetsUpTo(StoredRows, MaxRelRows) : UniqueTriples(t)}

\* cursor.fetchall() of a SELECT without ORDER BY: the rows in some order
RECURSIVE FetchAll(_)
FetchAll(rows) ==
    IF rows = {} THEN {<<>>}
    ELSE UNION {{<<r>> \o rest : rest \in FetchAll(rows \ {r})} : r \in rows}

-----------------------------------------------------------------------------
\* SpecBuild: build_graph_from_db called again and again on one snapshot.

NoBatch == [product_ids |-> <<>>, idx |-> 0, total |-> 0, processed |-> 0,
            relationships_created |-> 0]
NoRound == [phase |-> "none", product_id |-> 0, pool |-> <<>>,
            relationships |-> <<>>, next |-> 0, before |-> {}]
NoRecs == [status |-> "none", product_id |-> 0, limit |-> 0, similar |-> <<>>,
           complements |-> <<>>, alternatives |-> <<>>]
NoSummary == [total_products |-> 0 - 1, processed |-> 0 - 1,
              total_relationships |-> 0 - 1]
NoViz == [status |-> "none", product_id |-> 0, radius |-> 0, nodes |-> {}, links |-> {}]
NoSwap == [phase |-> "idle", previous |-> EmptyGraph, target |-> EmptyGraph,
           rels |-> <<>>, observed |-> EmptyGraph, reading |-> "none"]
NoScored == [status |-> "none"]

InitBuild ==
    /\ products \in Snapshots
    /\ committed \in StoredTables
    /\ table = committed
    /\ graph = EmptyGraph
    /\ client = TRUE
    /\ builds = 0
    /\ buildStatus = "none"
    /\ pc = "idle"
    /\ batch = NoBatch
    /\ observer = FALSE
    /\ calls = <<>>
    /\ cancelRequested = FALSE
    /\ started = <<>>
    /\ round = NoRound
    /\ summary = NoSummary
    /\ upserts = <<>>
    /\ recs = NoRecs
    /\ viz = NoViz
    /\ swap = NoSwap
    /\ scored = NoScored

BuildGraph ==
    /\ builds < MaxBuilds
    /\ \E rels \in FetchAll(table) :
           /\ graph' = BuildGraphFromDb(graph, products, rels)
           /\ buildStatus' = BuildOutcome(products, rels)
    /\ builds' = builds + 1
    /\ UNCHANGED <<queryVars, products, committed, table, client, batchVars>>

NextBuild == BuildGraph

SpecBuild == InitBuild /\ [][NextBuild]_vars

-----------------------------------------------------------------------------
\* _store_relationship and the discovery round (analyze_product_relationships).

\* a plain INSERT: the row in conflict stays
StoreRelationshipInsertOnly(t, source_id, target_id, rel_type, score, reasoning) ==
    t \cup {RelationshipRow(source_id, target_id, rel_type, score, reasoning)}

\* INSERT OR REPLACE: a row in conflict with the new one is deleted, the new
\* row is inserted
StoreRelationship(t, source_id, target_id, rel_type, score, reasoning) ==
    {r \in t : TripleOf(r) # <<source_id, target_id, rel_type>>}
        \cup {RelationshipRow(source_id, target_id, rel_type, score, reasoning)}

\* LIMIT 20 of the candidate query
PoolLimit == 20

\* ORDER BY p.id over the rows of the join: the rows of the lowest id first
RECURSIVE OrderById(_)
OrderById(rows) ==
    IF rows = <<>> THEN <<>>
    ELSE LET low == CHOOSE i \in 1..Len(rows) :
                        \A j \in 1..Len(rows) :
                            rows[i].id < rows[j].id \/ (rows[i].id = rows[j].id /\ i <= j)
         IN  <<rows[low]>>
             \o OrderById(SubSeq(rows, 1, low - 1) \o SubSeq(rows, low + 1, Len(rows)))

\* the candidate query without its LIMIT
CandidatePoolUncapped(rows, product_id) ==
    LET others == OrderById(SelectSeq(rows, LAMBDA row : row.id # product_id))
    IN  [i \in 1..Len(others) |-> others[i].id]

\* WHERE p.id != ? ORDER BY p.id LIMIT 20: the ids of the rows kept, one per
\* row of products LEFT JOIN enriched_products
CandidatePool(rows, product_id) ==
    LET others == OrderById(SelectSeq(rows, LAMBDA row : row.id # product_id))
        kept == SubSeq(others, 1,
                       IF Len(others) < PoolLimit THEN Len(others) ELSE PoolLimit)
    IN  [i \in 1..Len(kept) |-> kept[i].id]

\* a proposal of the provider's JSON array; MissingKey as target_product_id
\* stands for an object without that key
MissingKey == 0
Proposal(target, rtype, score, reasoning) ==
    [target_product_id |-> target, relationship_type |-> rtype,
     similarity_score |-> score, reasoning |-> reasoning]

\* rel.get('similarity_score', 0.5) and rel.get('reasoning', '')
ScoreOf(rel) == IF rel.similarity_score = NoScore THEN 5 ELSE rel.similarity_score
ReasoningOf(rel) == IF rel.reasoning = NoAttr THEN "" ELSE rel.reasoning

\* the call enters analyze_product_relationships: without a client, or for a
\* product id that is no product, it raises before the provider is called; otherwise the source row and the candidate pool are
\* read and the provider is called
EnterRound(product_id) ==
    IF ~client \/ product_id \notin RowIds(products)
    THEN [phase |-> "raised", product_id |-> product_id, pool |-> <<>>,
          relationships |-> <<>>, next |-> 0, before |-> table]
    ELSE [phase |-> "calling", product_id |-> product_id,
          pool |-> CandidatePool(products, product_id),
          relationships |-> <<>>, next |-> 0, before |-> table]

\* a rollback that undoes nothing
RollbackTableKeepsWrites(t, c) == t

\* except Exception: conn.rollback(), then the error is raised again
RollbackTable(t, c) == c

\* proposals per reply
MaxProposals == 2

\* what the provider can propose for a source: the id after the source's (a
\* candidate of the pool, or for the last product an id that is no product)
\* with score 0.9 or 0.4, or an object without target_product_id
BatchProposals(product_id) ==
    {Proposal(t, "SIMILAR_TO", 9, "r1") : t \in {product_id + 1, MissingKey}}
        \cup {Proposal(product_id + 1, "SIMILAR_TO", 4, "r1")}

BatchReplies(product_id) == SeqsUpTo(BatchProposals(product_id), MaxProposals)

\* messages.create raises, or json.loads cannot parse the text
ProviderFails ==
    /\ pc = "round" /\ round.phase = "calling"
    /\ table' = RollbackTable(table, committed)
    /\ round' = [round EXCEPT !.phase = "raised"]
    /\ UNCHANGED <<queryVars, products, committed, graph, client, buildVars,
                   pc, batch, observer, calls, cancelRequested, started, summary>>

\* the provider's text parses to the array reply
ProviderReplies ==
    /\ pc = "round" /\ round.phase = "calling"
    /\ \E reply \in BatchReplies(round.product_id) :
           round' = [round EXCEPT !.phase = "storing", !.relationships = reply,
                                  !.next = 1]
    /\ UNCHANGED <<queryVars, storeVars, buildVars,
                   pc, batch, observer, calls, cancelRequested, started, summary>>

\* one pass of the for loop over relationships: rel['target_product_id'] of an
\* object without the key raises, and the except branch rolls back
StoreProposal ==
    /\ pc = "round" /\ round.phase = "storing"
    /\ round.next <= Len(round.relationships)
    /\ LET rel == round.relationships[round.next]
       IN  IF rel.target_product_id = MissingKey
           THEN /\ table' = RollbackTable(table, committed)
                /\ round' = [round EXCEPT !.phase = "raised"]
           ELSE /\ table' = StoreRelationship(table, round.product_id,
                                              rel.target_product_id,
                                              rel.relationship_type,
                                              ScoreOf(rel), ReasoningOf(rel))
                /\ round' = [round EXCEPT !.next = @ + 1]
    /\ UNCHANGED <<queryVars, products, committed, graph, client, buildVars,
                   pc, batch, observer, calls, cancelRequested, started, summary>>

\* conn.commit(), the rebuild of the graph, return relationships
CommitAndRebuild ==
    /\ pc = "round" /\ round.phase = "storing"
    /\ round.next > Len(round.relationships)
    /\ committed' = table
    /\ \E rels \in FetchAll(table) :
           /\ graph' = BuildGraphFromDb(graph, products, rels)
           /\ buildStatus' = BuildOutcome(products, rels)
    /\ round' = [round EXCEPT !.phase = "returned"]
    /\ UNCHANGED <<queryVars, products, table, client, builds,
                   pc, batch, observer, calls, cancelRequested, started, summary>>

-----------------------------------------------------------------------------
\* batch_analyze_all_products.

\* SELECT id FROM products has no ORDER BY: the ids come in some order
BatchStart ==
    /\ pc = "idle"
    /\ \E ids \in FetchAll(RowIds(products)), cb \in BOOLEAN :
           /\ batch' = [product_ids |-> ids, idx |-> 1, total |-> Len(ids),
                        processed |-> 0, relationships_created |-> 0]
           /\ observer' = cb
    /\ pc' = "loop"
    /\ UNCHANGED <<queryVars, storeVars, buildVars, calls, cancelRequested, started, round,
                   summary>>

\* the for loop takes the next product id and awaits its discovery round
StartRound ==
    /\ pc = "loop"
    /\ batch.idx <= batch.total
    /\ LET product_id == batch.product_ids[batch.idx]
       IN  /\ round' = EnterRound(product_id)
           /\ started' = Append(started, product_id)
    /\ pc' = "round"
    /\ UNCHANGED <<queryVars, storeVars, buildVars, batch, observer, calls, cancelRequested,
                   summary>>

\* the round returned: the counters are raised and the observer, when there is
\* one, is called; an observer that raises lands in the except branch, which
\* raises processed again
ItemDone ==
    /\ pc = "round" /\ round.phase = "returned"
    /\ LET found == Len(round.relationships)
           done == batch.processed + 1
       IN  \E raises \in (IF observer THEN BOOLEAN ELSE {FALSE}) :
               /\ calls' = IF observer
                           THEN Append(calls, [product_id |-> round.product_id,
                                               processed |-> done,
                                               total |-> batch.total,
                                               relationships_found |-> found,
                                               raised |-> raises])
                           ELSE calls
               /\ batch' = [batch EXCEPT
                              !.relationships_created = @ + found,
                              !.processed = IF raises THEN done + 1 ELSE done,
                              !.idx = @ + 1]
    /\ round' = NoRound
    /\ pc' = "loop"
    /\ UNCHANGED <<queryVars, storeVars, buildVars, observer, cancelRequested, started, summary>>

\* the round raised: except Exception prints and raises processed
ItemFailed ==
    /\ pc = "round" /\ round.phase = "raised"
    /\ batch' = [batch EXCEPT !.processed = @ + 1, !.idx = @ + 1]
    /\ round' = NoRound
    /\ pc' = "loop"
    /\ UNCHANGED <<queryVars, storeVars, buildVars, observer, calls, cancelRequested, started,
                   summary>>

\* the loop is over: the summary is returned
BatchReturn ==
    /\ pc = "loop"
    /\ batch.idx > batch.total
    /\ summary' = [total_products |-> batch.total, processed |-> batch.processed,
                   total_relationships |-> batch.relationships_created]
    /\ pc' = "done"
    /\ UNCHANGED <<queryVars, storeVars, buildVars, batch, observer, calls, cancelRequested,
                   started, round>>

\* the caller asks for the run to be cancelled; nothing in the run reads it
RequestCancel ==
    /\ pc \in {"loop", "round"}
    /\ ~cancelRequested
    /\ cancelRequested' = TRUE
    /\ UNCHANGED <<queryVars, storeVars, buildVars, pc, batch, observer, calls, started, round,
                   summary>>

-----------------------------------------------------------------------------
\* Spec: one batch run over a catalog, the provider answering each round.

CatalogProfile == [id \in ProductIds |-> <<"Audio", "Acme">>]

Init ==
    /\ products = JoinRows(CatalogProfile, {}, 1)
    /\ committed = {}
    /\ table = {}
    /\ graph = EmptyGraph
    /\ client \in BOOLEAN
    /\ builds = 0
    /\ buildStatus = "none"
    /\ pc = "idle"
    /\ batch = NoBatch
    /\ observer = FALSE
    /\ calls = <<>>
    /\ cancelRequested = FALSE
    /\ started = <<>>
    /\ round = NoRound
    /\ summary = NoSummary
    /\ upserts = <<>>
    /\ recs = NoRecs
    /\ viz = NoViz
    /\ swap = NoSwap
    /\ scored = NoScored

Next ==
    \/ BatchStart
    \/ StartRound
    \/ ProviderFails
    \/ ProviderReplies
    \/ StoreProposal
    \/ CommitAndRebuild
    \/ ItemDone
    \/ ItemFailed
    \/ BatchReturn
    \/ RequestCancel

Spec == Init /\ [][Next]_vars

-----------------------------------------------------------------------------
\* Claims about the batch run and the discovery round.

\* C1: in a batch run that is not cancelled, a failing discovery round never
\* stops the run: every product is attempted and the returned summary has
\* processed equal to total.
C1_FailureNeverStopsRun ==
    (pc = "done" /\ ~cancelRequested) =>
        /\ Len(started) = batch.total
        /\ {started[i] : i \in 1..Len(started)} = RowIds(products)
        /\ summary.processed = summary.total_products

\* C2: a supplied progress observer is invoked exactly once after every item,
\* failed items included, and the k-th invocation reports processed = k.
C2_ObserverAfterEveryItem ==
    (observer /\ pc \in {"loop", "done"}) =>
        /\ Len(calls) = batch.idx - 1
        /\ \A k \in 1..Len(calls) :
               /\ calls[k].processed = k
               /\ calls[k].product_id = batch.product_ids[k]

\* C3: the batch run starts exactly one discovery round per product id, in
\* ascending product id order, and a round starts only after the previous one
\* has finished.
C3_OneRoundPerProductAscending ==
    /\ \A i, j \in 1..Len(started) : i < j => started[i] < started[j]
    /\ pc = "done" => {started[i] : i \in 1..Len(started)} = RowIds(products)
    /\ pc = "loop" => Len(started) = batch.idx - 1
    /\ pc = "round" => Len(started) = batch.idx

\* C4: once cancellation has been requested, no further discovery round is
\* started, and the run returns with processed equal to the number of items
\* already attempted.
C4_NoRoundAfterCancel ==
    [][cancelRequested => /\ started' = started
                          /\ (pc' = "done" => summary'.processed = Len(started))]_vars

-----------------------------------------------------------------------------
\* SpecStore: _store_relationship called with any arguments, again and again.

\* _store_relationship calls in one run
MaxUpserts == 3

UpsertArgs ==
    UNION {{RelationshipRow(s, (s % NumProducts) + 1, rtype, score, reasoning) :
                rtype \in {"SIMILAR_TO", "COMPLEMENTS"}, score \in {5, 9},
                reasoning \in {"r1", "r2"}} : s \in ProductIds}

InitStore ==
    /\ products = JoinRows(CatalogProfile, {}, 1)
    /\ committed = {}
    /\ table = {}
    /\ graph = EmptyGraph
    /\ client = TRUE
    /\ builds = 0
    /\ buildStatus = "none"
    /\ pc = "idle"
    /\ batch = NoBatch
    /\ observer = FALSE
    /\ calls = <<>>
    /\ cancelRequested = FALSE
    /\ started = <<>>
    /\ round = NoRound
    /\ summary = NoSummary
    /\ upserts = <<>>
    /\ recs = NoRecs
    /\ viz = NoViz
    /\ swap = NoSwap
    /\ scored = NoScored

Upsert ==
    /\ Len(upserts) < MaxUpserts
    /\ \E a \in UpsertArgs :
           /\ table' = StoreRelationship(table, a.source_product_id,
                                         a.target_product_id, a.relationship_type,
                                         a.similarity_score, a.reasoning)
           /\ upserts' = Append(upserts, a)
    /\ UNCHANGED <<products, committed, graph, client, buildVars, batchVars, recs, viz, swap,
                   scored>>

NextStore == Upsert

SpecStore == InitStore /\ [][NextStore]_vars

\* the last call of the history for a triple
LastUpsert(history, triple) ==
    LET at == {i \in 1..Len(history) : TripleOf(history[i]) = triple}
    IN  history[CHOOSE i \in at : \A j \in at : j <= i]

\* C6: after any sequence of upserts the store holds at most one record per
\* (source, target, relationshipType), exactly for the triples upserted, and
\* the record carries the score and reasoning of the latest upsert of its triple.
C6_UpsertKeepsLatest ==
    /\ \A r1, r2 \in table : TripleOf(r1) = TripleOf(r2) => r1 = r2
    /\ {TripleOf(r) : r \in table} = {TripleOf(upserts[i]) : i \in 1..Len(upserts)}
    /\ \A r \in table : r = LastUpsert(upserts, TripleOf(r))

\* C6 witness: a triple was upserted twice with different scores and the store
\* holds it once, with the later score.
C6_Witness ==
    \E i, j \in 1..Len(upserts) :
        /\ i < j
        /\ TripleOf(upserts[i]) = TripleOf(upserts[j])
        /\ upserts[i].similarity_score # upserts[j].similarity_score
        /\ upserts[j] = LastUpsert(upserts, TripleOf(upserts[j]))
        /\ upserts[j] \in table
        /\ upserts[i] \notin table

-----------------------------------------------------------------------------
\* get_product_relationships and get_recommendations.

View(row) ==
    [product_id |-> row.target_product_id, relationship_type |-> row.relationship_type,
     similarity_score |-> row.similarity_score, reasoning |-> row.reasoning]

\* WHERE pr.source_product_id = ?
Leaving(t, product_id) == {r \in t : r.source_product_id = product_id}

\* the rows of the query, rels being the product's records in the order the
\* store yields them: JOIN products on the target (one row per product row of
\* that id, none when there is none)
RECURSIVE GetProductRelationships(_, _)
GetProductRelationships(rels, rows) ==
    IF rels = <<>> THEN <<>>
    ELSE LET row == Head(rels)
             matches == SelectSeq(rows, LAMBDA pr : pr.id = row.target_product_id)
         IN  [i \in 1..Len(matches) |-> View(row)]
             \o GetProductRelationships(Tail(rels), rows)

\* the if / elif chain that fills one list of recommendations
OfType(views, rtype) == SelectSeq(views, LAMBDA v : v.relationship_type = rtype)

\* sorted(..., key=similarity_score, reverse=True): stable, equal scores keep
\* their order
RECURSIVE InsertByScore(_, _)
InsertByScore(sorted, v) ==
    IF sorted = <<>> THEN <<v>>
    ELSE IF Head(sorted).similarity_score < v.similarity_score
         THEN <<v>> \o sorted
         ELSE <<Head(sorted)>> \o InsertByScore(Tail(sorted), v)

RECURSIVE SortByScore(_)
SortByScore(views) ==
    IF views = <<>> THEN <<>>
    ELSE InsertByScore(SortByScore(SubSeq(views, 1, Len(views) - 1)),
                       views[Len(views)])

\* comparing None with a number or with None raises TypeError; a list of one
\* element is never compared
SortRaises(views) ==
    Len(views) >= 2 /\ \E i \in 1..Len(views) : views[i].similarity_score = NullScore

\* the slice [:limit] without its bound
TruncateUnbounded(views, limit) == views

\* the slice [:limit], limit >= 0
Truncate(views, limit) ==
    SubSeq(views, 1, IF Len(views) < limit THEN Len(views) ELSE limit)

GetRecommendations(rels, rows, product_id, limit) ==
    LET relationships == GetProductRelationships(rels, rows)
        similar == OfType(relationships, "SIMILAR_TO")
        complements == OfType(relationships, "COMPLEMENTS")
        alternatives == OfType(relationships, "ALTERNATIVE_TO")
    IN  IF SortRaises(similar) \/ SortRaises(complements) \/ SortRaises(alternatives)
        THEN [status |-> "TypeError", product_id |-> product_id, limit |-> limit,
              similar |-> <<>>, complements |-> <<>>, alternatives |-> <<>>]
        ELSE [status |-> "ok", product_id |-> product_id, limit |-> limit,
              similar |-> Truncate(SortByScore(similar), limit),
              complements |-> Truncate(SortByScore(complements), limit),
              alternatives |-> Truncate(SortByScore(alternatives), limit)]

-----------------------------------------------------------------------------
\* SpecReco: get_recommendations asked of a store of relationship records.

\* rows of product_relationships the store starts with
MaxRecoRows == 2
\* the limit argument ranges over 0..MaxLimit
MaxLimit == 2

RecoRows ==
    {RelationshipRow(s, t, rtype, score, "r1") :
        s \in {1, 2}, t \in {1, 2, DanglingId},
        rtype \in DiscoveredTypes \cup {"BELONGS_TO"}, score \in {NullScore, 5, 9}}

RecoTables == {t \in SetsUpTo(RecoRows, MaxRecoRows) : UniqueTriples(t)}

InitReco ==
    /\ products = JoinRows(CatalogProfile, {}, 1)
    /\ committed \in RecoTables
    /\ table = committed
    /\ graph = EmptyGraph
    /\ client = TRUE
    /\ builds = 0
    /\ buildStatus = "none"
    /\ pc = "idle"
    /\ batch = NoBatch
    /\ observer = FALSE
    /\ calls = <<>>
    /\ cancelRequested = FALSE
    /\ started = <<>>
    /\ round = NoRound
    /\ summary = NoSummary
    /\ upserts = <<>>
    /\ recs = NoRecs
    /\ viz = NoViz
    /\ swap = NoSwap
    /\ scored = NoScored

\* one call per run: the call reads the store and changes nothing
Recommend ==
    /\ recs.status = "none"
    /\ \E product_id \in ProductIds, limit \in 0..MaxLimit :
           \E rels \in FetchAll(Leaving(table, product_id)) :
               recs' = GetRecommendations(rels, products, product_id, limit)
    /\ UNCHANGED <<storeVars, buildVars, batchVars, upserts, viz, swap, scored>>

NextReco == Recommend

SpecReco == InitReco /\ [][NextReco]_vars

\* the discovered relationships leaving a product to a product of the catalog
Outgoing(product_id, rtype) ==
    {r \in table : /\ r.source_product_id = product_id
                   /\ r.relationship_type = rtype
                   /\ r.target_product_id \in RowIds(products)}

\* every item of the list is a record of the kind leaving the product, no
\* record appears twice, and the list has at most limit items
ListWithin(list, product_id, rtype, limit) ==
    /\ Len(list) <= limit
    /\ \A i \in 1..Len(list) :
           /\ list[i].relationship_type = rtype
           /\ \E r \in Outgoing(product_id, rtype) : View(r) = list[i]
    /\ Len(list) <= Cardinality(Outgoing(product_id, rtype))

\* C10: each of the three sequences get_recommendations returns has at most
\* limit items and holds only relationships of its own kind leaving the
\* product; a product with no outgoing discovered relationships gets three
\* empty sequences.
C10_RecommendationsBounded ==
    recs.status # "none" =>
        /\ recs.status = "ok" =>
               /\ ListWithin(recs.similar, recs.product_id, "SIMILAR_TO", recs.limit)
               /\ ListWithin(recs.complements, recs.product_id, "COMPLEMENTS", recs.limit)
               /\ ListWithin(recs.alternatives, recs.product_id, "ALTERNATIVE_TO",
                             recs.limit)
        /\ (\A r \in table : r.source_product_id = recs.product_id
                                => r.relationship_type \notin DiscoveredTypes)
             => (recs.status = "ok" /\ recs.similar = <<>>
                 /\ recs.complements = <<>> /\ recs.alternatives = <<>>)

\* C10 witness: the product has more similar relationships than the limit, and
\* the list returned holds exactly limit of them.
C10_Witness ==
    /\ recs.status = "ok"
    /\ recs.limit >= 1
    /\ Cardinality(Outgoing(recs.product_id, "SIMILAR_TO")) > recs.limit
    /\ Len(recs.similar) = recs.limit

-----------------------------------------------------------------------------
\* Claims about the graph builder.

EdgesFrom(g, k, rtype) ==
    {e \in g.edges : e.source = k /\ e.relationship_type = rtype}

C8_DanglingTargetSkipped ==
    buildStatus # "none" =>
        /\ buildStatus = "ok"
        /\ \A r \in committed :
               r.target_product_id \notin RowIds(products) =>
                   /\ ~HasNode(graph, ProductKey(r.target_product_id))
                   /\ \A e \in graph.edges :
                          e.target # ProductKey(r.target_product_id)

\* two product records of the snapshot share an id
DuplicateIds(rows) ==
    \E i, j \in 1..Len(rows) : i # j /\ rows[i].id = rows[j].id

\* C9: building from a snapshot in which two product records share the same id
\* fails with InvalidSnapshot instead of producing a graph.
C9_DuplicateIdsFail ==
    (builds >= 1 /\ DuplicateIds(products)) => buildStatus = "InvalidSnapshot"

-----------------------------------------------------------------------------
\* Claims about the order of recommendations.

\* the score a record sorts under when an absent score counts as 0.0
ScoreOrZero(v) == IF v.similarity_score = NullScore THEN 0 ELSE v.similarity_score

\* descending score, equal scores by ascending target product id
OrderedByScoreThenTarget(list) ==
    \A i, j \in 1..Len(list) :
        i < j => \/ ScoreOrZero(list[i]) > ScoreOrZero(list[j])
                 \/ /\ ScoreOrZero(list[i]) = ScoreOrZero(list[j])
                    /\ list[i].product_id <= list[j].product_id

\* C11: each sequence get_recommendations returns is ordered by similarity
\* score descending, an absent score counting as 0.0, and items with equal
\* scores are in ascending target product id order, whatever order the store
\* yields the records in.
C11_OrderedByScoreThenTarget ==
    recs.status = "ok" =>
        /\ OrderedByScoreThenTarget(recs.similar)
        /\ OrderedByScoreThenTarget(recs.complements)
        /\ OrderedByScoreThenTarget(recs.alternatives)

-----------------------------------------------------------------------------
\* get_graph_visualization_data.

NodeKeys(g) == {n.key : n \in g.nodes}

\* DiGraph.to_undirected(): u and v are neighbours when an edge joins them in
\* either direction
Adjacent(g, u, v) ==
    \E e \in g.edges : \/ (e.source = u /\ e.target = v)
                       \/ (e.source = v /\ e.target = u)

\* single_source_shortest_path_length(G, n, cutoff): breadth-first levels
RECURSIVE WithinHops(_, _, _)
WithinHops(g, reached, hops) ==
    IF hops = 0 THEN reached
    ELSE WithinHops(g,
                    reached \cup {k \in NodeKeys(g) :
                                     \E u \in reached : Adjacent(g, u, k)},
                    hops - 1)

\* radius=2 in the ego_graph call
EgoRadius == 2

\* what ego_graph raises for a center that is no node: NodeNotFound
\* (networkx 2 and later) or KeyError (networkx 1); neither is a NetworkXError
EgoGraphErrors == {"NodeNotFound", "KeyError"}

\* except nx.NetworkXError
Caught(exc) == exc = "NetworkXError"

\* position of a node in the graph's node order: product nodes in row order,
\* then category nodes, then brand nodes, then the nodes add_edge created
NodeRank(rows, k) ==
    IF k.kind = "category" THEN Len(rows) + 1
    ELSE IF k.kind = "brand" THEN Len(rows) + 2
    ELSE IF \E i \in 1..Len(rows) : rows[i].id = k.id
         THEN CHOOSE i \in 1..Len(rows) :
                  /\ rows[i].id = k.id
                  /\ \A j \in 1..Len(rows) : rows[j].id = k.id => i <= j
         ELSE Len(rows) + 2 + k.id

\* an item of the links array: type, score and reasoning with their defaults;
\* str() of a node key keeps distinct keys distinct
Link(e) ==
    [source |-> e.source, target |-> e.target,
     type |-> IF e.relationship_type = NoAttr THEN "UNKNOWN" ELSE e.relationship_type,
     score |-> IF e.similarity_score = NoScore THEN 0 ELSE e.similarity_score,
     reasoning |-> IF e.reasoning = NoAttr THEN "" ELSE e.reasoning]

\* dict.update: the attributes of the edge met second overwrite those of the
\* edge met first
MergeAttrs(first, second) ==
    [first EXCEPT
       !.relationship_type = IF second.relationship_type = NoAttr THEN @
                             ELSE second.relationship_type,
       !.similarity_score = IF second.similarity_score = NoScore THEN @
                            ELSE second.similarity_score,
       !.reasoning = IF second.reasoning = NoAttr THEN @ ELSE second.reasoning]

\* the edge of to_undirected() between u and v, u the earlier node: reported
\* as (u, v), with the attributes of u -> v updated by those of v -> u
UndirectedEdge(g, u, v) ==
    LET forward == {e \in g.edges : e.source = u /\ e.target = v}
        backward == {e \in g.edges : e.source = v /\ e.target = u}
        blank == [source |-> u, target |-> v, relationship_type |-> NoAttr,
                  similarity_score |-> NoScore, reasoning |-> NoAttr]
        first == IF forward = {} THEN blank ELSE CHOOSE e \in forward : TRUE
    IN  IF backward = {} THEN first
        ELSE MergeAttrs(first, CHOOSE e \in backward : TRUE)

\* nodes and links of the whole directed graph
ExportGraph(g) == [nodes |-> NodeKeys(g), links |-> {Link(e) : e \in g.edges}]

\* nodes and links of ego_graph(self.graph.to_undirected(), center, radius)
ExportEgo(g, rows, center, radius) ==
    LET keep == WithinHops(g, {center}, radius)
        pairs == {p \in keep \X keep :
                     /\ Adjacent(g, p[1], p[2])
                     /\ NodeRank(rows, p[1]) <= NodeRank(rows, p[2])}
    IN  [nodes |-> keep,
         links |-> {Link(UndirectedEdge(g, p[1], p[2])) : p \in pairs}]

\* the method on graph g; product_id 0 stands for None (both are falsy), exc
\* is what ego_graph raises when the center is no node
GetGraphVisualizationData(g, rows, product_id, exc) ==
    IF product_id # 0
    THEN IF ProductKey(product_id) \in NodeKeys(g)
         THEN [status |-> "ok"] @@ ExportEgo(g, rows, ProductKey(product_id), EgoRadius)
         ELSE IF Caught(exc)
              THEN [status |-> "ok"] @@ ExportGraph(g)
              ELSE [status |-> exc, nodes |-> {}, links |-> {}]
    ELSE [status |-> "ok"] @@ ExportGraph(g)

-----------------------------------------------------------------------------
\* SpecViz: get_graph_visualization_data asked of the service, with or without
\* a connection, between calls of build_graph_from_db.

\* rows of product_relationships the store starts with
MaxVizRows == 2
\* the radius a caller asks for ranges over 0..MaxRadius
MaxRadius == 2

\* (category, brand) of the product rows: both absent or both named
VizProfiles == {<<NULL, NULL>>, <<"Audio", "Acme">>}

VizSnapshots == {JoinRows(profile, {}, 1) : profile \in [ProductIds -> VizProfiles]}

\* the rows the store can hold here: those of StoredRows and, for each product,
\* a second discovered record to its neighbour, of another type and score
VizRows ==
    StoredRows \cup
    {RelationshipRow(s, (s % NumProducts) + 1, "COMPLEMENTS", 5, "r2") : s \in ProductIds}

VizTables == {t \in SetsUpTo(VizRows, MaxVizRows) : UniqueTriples(t)}

\* an id that is neither a product nor the target of a stored record
UnknownId == NumProducts + 2

InitViz ==
    /\ products \in VizSnapshots
    /\ committed \in VizTables
    /\ table = committed
    /\ graph = EmptyGraph
    /\ client = TRUE
    /\ builds = 0
    /\ buildStatus = "none"
    /\ pc = "idle"
    /\ batch = NoBatch
    /\ observer = FALSE
    /\ calls = <<>>
    /\ cancelRequested = FALSE
    /\ started = <<>>
    /\ round = NoRound
    /\ summary = NoSummary
    /\ upserts = <<>>
    /\ recs = NoRecs
    /\ viz = NoViz
    /\ swap = NoSwap
    /\ scored = NoScored

\* one call per run. radius is the radius the caller wants: the method has no
\* parameter for it and always uses EgoRadius
Visualize ==
    /\ viz.status = "none"
    /\ \E product_id \in 0..UnknownId, conn \in BOOLEAN, radius \in 0..MaxRadius,
          exc \in EgoGraphErrors :
           \E rels \in FetchAll(table) :
               LET g == IF conn THEN BuildGraphFromDb(graph, products, rels) ELSE graph
               IN  /\ graph' = g
                   /\ builds' = IF conn THEN builds + 1 ELSE builds
                   /\ buildStatus' = IF conn THEN BuildOutcome(products, rels)
                                     ELSE buildStatus
                   /\ viz' = [product_id |-> product_id, radius |-> radius]
                             @@ GetGraphVisualizationData(g, products, product_id, exc)
    /\ UNCHANGED <<products, committed, table, client, batchVars, upserts, recs, swap,
                   scored>>

NextViz == BuildGraph \/ Visualize

SpecViz == InitViz /\ [][NextViz]_vars

\* C12: a visualization request whose center product id is no node of the
\* graph does not raise and returns the export of the entire graph.
C12_UnknownCenterFullGraph ==
    (/\ viz.status # "none"
     /\ viz.product_id # 0
     /\ ProductKey(viz.product_id) \notin NodeKeys(graph)) =>
        /\ viz.status = "ok"
        /\ viz.nodes = NodeKeys(graph)
        /\ viz.links = {Link(e) : e \in graph.edges}

\* C13: with a center product that is a node of the graph, the exported node
\* set is exactly the set of nodes at undirected distance at most the
\* requested radius from the center, for every requested radius.
C13_NodesWithinRequestedRadius ==
    (/\ viz.status # "none"
     /\ viz.product_id # 0
     /\ ProductKey(viz.product_id) \in NodeKeys(graph)) =>
        /\ viz.status = "ok"
        /\ viz.nodes = WithinHops(graph, {ProductKey(viz.product_id)}, viz.radius)

-----------------------------------------------------------------------------
\* SpecPool: analyze_product_relationships called once, for any product, over
\* a catalog large enough for the LIMIT of the candidate query to cut.

\* products of the largest catalog
MaxCatalog == 22

\* the rows of products LEFT JOIN enriched_products for ids 1..n: one row per
\* product, two for a product of joined
RECURSIVE CatalogRows(_, _, _)
CatalogRows(n, joined, id) ==
    IF id > n THEN <<>>
    ELSE LET row == [id |-> id, category |-> "Audio", brand |-> "Acme"]
         IN  (IF id \in joined THEN <<row, row>> ELSE <<row>>)
             \o CatalogRows(n, joined, id + 1)

Catalogs == {CatalogRows(n, joined, 1) : n \in 1..MaxCatalog, joined \in {{}, {1}, {2}}}

InitPool ==
    /\ products \in Catalogs
    /\ committed = {}
    /\ table = {}
    /\ graph = EmptyGraph
    /\ client = TRUE
    /\ builds = 0
    /\ buildStatus = "none"
    /\ pc = "idle"
    /\ batch = NoBatch
    /\ observer = FALSE
    /\ calls = <<>>
    /\ cancelRequested = FALSE
    /\ started = <<>>
    /\ round = NoRound
    /\ summary = NoSummary
    /\ upserts = <<>>
    /\ recs = NoRecs
    /\ viz = NoViz
    /\ swap = NoSwap
    /\ scored = NoScored

\* a direct call of analyze_product_relationships(product_id, conn)
Analyze ==
    /\ pc = "idle"
    /\ \E product_id \in RowIds(products) : round' = EnterRound(product_id)
    /\ pc' = "round"
    /\ UNCHANGED <<queryVars, storeVars, buildVars, batch, observer, calls,
                   cancelRequested, started, summary>>

NextPool == Analyze \/ ProviderFails \/ ProviderReplies \/ StoreProposal \/ CommitAndRebuild

SpecPool == InitPool /\ [][NextPool]_vars

\* the ids of the rows of the join other than the source's, as a set
OtherIds == RowIds(products) \ {round.product_id}

\* the number of rows of the join other than the source's
OtherRows == Len(SelectSeq(products, LAMBDA row : row.id # round.product_id))

\* C14: the candidate pool passed to the provider never contains the source
\* product, never has more than 20 products, and consists of the lowest-id
\* other products in ascending id order: it is cut only at the limit, and
\* every other product with an id below a pool member's is in the pool.
C14_PoolCappedAscending ==
    (round.phase # "none" /\ round.product_id \in RowIds(products) /\ client) =>
        LET pool == round.pool
            ids == {pool[i] : i \in 1..Len(pool)}
        IN  /\ round.product_id \notin ids
            /\ ids \subseteq OtherIds
            /\ Len(pool) <= 20
            /\ Len(pool) = (IF OtherRows < 20 THEN OtherRows ELSE 20)
            /\ \A i, j \in 1..Len(pool) : i < j => pool[i] <= pool[j]
            /\ \A x \in OtherIds : \A y \in ids : x < y => x \in ids

\* C14 witness: the provider was called for a product of a catalog with more
\* than 20 other products, and the pool has 20 of them.
C14_Witness ==
    /\ round.phase = "calling"
    /\ Cardinality(OtherIds) > 20
    /\ Len(round.pool) = 20
    /\ round.product_id < round.pool[Len(round.pool)]

-----------------------------------------------------------------------------
\* Claims about what a discovery round accepts from the provider.

\* the records a returned round has written
Persisted == committed \ round.before

\* C15: whatever the provider returns, a discovery round persists at most 5
\* relationships and never one whose similarity score is below 0.5; a proposal
\* with score exactly 0.5 is kept.
C15_AtMostFiveNoneBelowHalf ==
    round.phase = "returned" =>
        /\ Cardinality(Persisted) <= 5
        /\ \A r \in Persisted : r.similarity_score >= 5
        /\ \A i \in 1..Len(round.relationships) :
               ScoreOf(round.relationships[i]) = 5 =>
                   \E r \in committed :
                       TripleOf(r) = <<round.product_id,
                                       round.relationships[i].target_product_id,
                                       round.relationships[i].relationship_type>>

\* C16: a proposal whose target is no existing product id, or whose type is
\* none of SIMILAR_TO, COMPLEMENTS, ALTERNATIVE_TO, is dropped without failing
\* the round: it is never persisted, a round whose reply names a target in
\* every proposal does not raise, and the valid proposals of the round are
\* persisted.
C16_InvalidProposalDropped ==
    /\ \A r \in committed :
           /\ r.target_product_id \in RowIds(products)
           /\ r.relationship_type \in DiscoveredTypes
    /\ round.phase = "raised" =>
           \/ round.relationships = <<>>
           \/ \E i \in 1..Len(round.relationships) :
                  round.relationships[i].target_product_id = MissingKey
    /\ round.phase = "returned" =>
           \A i \in 1..Len(round.relationships) :
               LET rel == round.relationships[i]
               IN  (/\ rel.target_product_id \in RowIds(products)
                    /\ rel.relationship_type \in DiscoveredTypes) =>
                       \E r \in committed :
                           TripleOf(r) = <<round.product_id, rel.target_product_id,
                                           rel.relationship_type>>

-----------------------------------------------------------------------------
\* calculate_aeo_score (services/enrichment.py). A text is modelled by what the
\* function reads of it: its length, its number of words, whether it is empty
\* and whether another text contains it (case-insensitive); a list by its
\* length. The details texts of the breakdown are left out.

\* a key that is not in the dict: .get(key, default) yields the default
Absent == 0 - 1
\* a key whose value is None: .get(key, default) yields None
PyNone == 0 - 2

\* len(enriched_data.get(key, default)) for a key that is not None
LenOf(field) == IF field = Absent THEN 0 ELSE field

Min(a, b) == IF a < b THEN a ELSE b
Max(a, b) == IF a > b THEN a ELSE b

\* the title rule without its middle band
TitleOptimizationTwoBands(title_len) ==
    IF 45 <= title_len /\ title_len <= 60 THEN 20
    ELSE IF title_len > 0 THEN 10
    ELSE 0

\* 1. Title Optimization
TitleOptimization(title_len) ==
    IF 45 <= title_len /\ title_len <= 60 THEN 20
    ELSE IF (40 <= title_len /\ title_len < 45) \/ (60 < title_len /\ title_len <= 70)
         THEN 15
    ELSE IF title_len > 0 THEN 10
    ELSE 0

\* 2. Attribute Completeness
AttributeCompleteness(attr_count) ==
    IF attr_count >= 7 THEN 20
    ELSE IF attr_count >= 5 THEN 15
    ELSE IF attr_count >= 3 THEN 10
    ELSE 5

\* 3. Semantic Richness: desc_score and faq_score
DescScore(word_count) ==
    IF 150 <= word_count /\ word_count <= 200 THEN 10
    ELSE IF (120 <= word_count /\ word_count < 150)
            \/ (200 < word_count /\ word_count <= 250)
         THEN 7
    ELSE IF word_count > 0 THEN 5
    ELSE 0

FaqScore(faq_count) ==
    IF faq_count >= 5 THEN 10
    ELSE IF faq_count >= 3 THEN 7
    ELSE IF faq_count > 0 THEN 5
    ELSE 0

\* tags and use cases counted without the caps of min(..., 10)
StructuredDataUncapped(tag_count, use_case_count) ==
    tag_count * 2 + use_case_count * 3

\* 4. Structured Data
StructuredData(tag_count, use_case_count) ==
    Min(tag_count * 2, 10) + Min(use_case_count * 3, 10)

\* brand and brand not in enriched_title and brand in original_title; a
\* raw_title that is not in the dict is '' and contains no brand
BrandMissing(inp) ==
    /\ inp.brand = "value"
    /\ ~inp.brand_in_enriched
    /\ inp.raw_title = "value" /\ inp.brand_in_raw

\* category and category not in description.lower()
CategoryMissing(inp) == inp.category = "value" /\ ~inp.category_in_description

\* 5. Consistency
Consistency(inp) ==
    LET afterBrand == IF BrandMissing(inp) THEN 20 - 5 ELSE 20
        afterCategory == IF CategoryMissing(inp) THEN afterBrand - 5 ELSE afterBrand
    IN  Max(afterCategory, 0)

\* the first statement that fails on a None: len(None) raises TypeError,
\* None.split() and None.lower() raise AttributeError
RaisedOnNone(inp) ==
    IF inp.enriched_title = PyNone THEN "TypeError"
    ELSE IF inp.key_attributes = PyNone THEN "TypeError"
    ELSE IF inp.long_description = PyNone THEN "AttributeError"
    ELSE IF inp.faqs = PyNone THEN "TypeError"
    ELSE IF inp.semantic_tags = PyNone THEN "TypeError"
    ELSE IF inp.use_cases = PyNone THEN "TypeError"
    ELSE IF inp.raw_title = "none" THEN "AttributeError"
    ELSE IF inp.brand = "none" THEN "AttributeError"
    ELSE IF inp.category = "none" THEN "AttributeError"
    ELSE "ok"

NoBreakdown ==
    [total_score |-> 0 - 1, title_optimization |-> 0 - 1,
     attribute_completeness |-> 0 - 1, semantic_richness |-> 0 - 1,
     structured_data |-> 0 - 1, consistency |-> 0 - 1]

CalculateAeoScore(inp) ==
    IF RaisedOnNone(inp) # "ok"
    THEN [status |-> RaisedOnNone(inp)] @@ NoBreakdown
    ELSE LET title_optimization == TitleOptimization(LenOf(inp.enriched_title))
             attribute_completeness == AttributeCompleteness(LenOf(inp.key_attributes))
             semantic_richness == DescScore(LenOf(inp.long_description))
                                  + FaqScore(LenOf(inp.faqs))
             structured_data == StructuredData(LenOf(inp.semantic_tags),
                                               LenOf(inp.use_cases))
             consistency == Consistency(inp)
         IN  [status |-> "ok",
              total_score |-> title_optimization + attribute_completeness
                              + semantic_richness + structured_data + consistency,
              title_optimization |-> title_optimization,
              attribute_completeness |-> attribute_completeness,
              semantic_richness |-> semantic_richness,
              structured_data |-> structured_data,
              consistency |-> consistency]

-----------------------------------------------------------------------------
\* SpecScore: calculate_aeo_score called once on any of the inputs below.

\* lengths and counts on both sides of every threshold of the function
TitleLens == {0, 39, 40, 44, 45, 60, 61, 70, 71}
AttrCounts == {0, 2, 3, 4, 5, 6, 7}
WordCounts == {0, 119, 120, 149, 150, 200, 201, 250, 251}
FaqCounts == {0, 1, 2, 3, 4, 5}
TagCounts == {0, 4, 5, 6}
UseCaseCounts == {0, 3, 4}

\* a text cannot contain a non-empty text when it is empty or has no word, and
\* the containment flags of an empty, missing or None brand or category are
\* not read
Realizable(inp) ==
    /\ inp.brand_in_enriched => (inp.brand = "value" /\ inp.enriched_title > 0)
    /\ inp.brand_in_raw => (inp.brand = "value" /\ inp.raw_title = "value")
    /\ inp.category_in_description =>
           (inp.category = "value" /\ inp.long_description > 0)

\* every field present
PresentInputs ==
    {inp \in [enriched_title : TitleLens, key_attributes : AttrCounts,
              long_description : WordCounts, faqs : FaqCounts,
              semantic_tags : TagCounts, use_cases : UseCaseCounts,
              raw_title : {"value"}, brand : {"empty", "value"},
              brand_in_enriched : BOOLEAN, brand_in_raw : BOOLEAN,
              category : {"empty", "value"}, category_in_description : BOOLEAN] :
        Realizable(inp)}

\* every field either present with one value, missing from its dict, or
\* present with the value None
PartialInputs ==
    {inp \in [enriched_title : {45, Absent, PyNone}, key_attributes : {7, Absent, PyNone},
              long_description : {150, Absent, PyNone}, faqs : {5, Absent, PyNone},
              semantic_tags : {5, Absent, PyNone}, use_cases : {4, Absent, PyNone},
              raw_title : {"value", "missing", "none"},
              brand : {"value", "missing", "none"},
              brand_in_enriched : BOOLEAN, brand_in_raw : BOOLEAN,
              category : {"value", "missing", "none"},
              category_in_description : BOOLEAN] :
        /\ Realizable(inp)
        /\ (inp.brand = "value" /\ inp.enriched_title > 0) => inp.brand_in_enriched
        /\ (inp.brand = "value" /\ inp.raw_title = "value") => inp.brand_in_raw
        /\ (inp.category = "value" /\ inp.long_description > 0)
               => inp.category_in_description}

ScoreInputs == PresentInputs \cup PartialInputs

InitScore ==
    /\ products = JoinRows(CatalogProfile, {}, 1)
    /\ committed = {}
    /\ table = {}
    /\ graph = EmptyGraph
    /\ client = TRUE
    /\ builds = 0
    /\ buildStatus = "none"
    /\ pc = "idle"
    /\ batch = NoBatch
    /\ observer = FALSE
    /\ calls = <<>>
    /\ cancelRequested = FALSE
    /\ started = <<>>
    /\ round = NoRound
    /\ summary = NoSummary
    /\ upserts = <<>>
    /\ recs = NoRecs
    /\ viz = NoViz
    /\ swap = NoSwap
    /\ scored = NoScored

\* one call per run: the function reads its two arguments and nothing else
Score ==
    /\ scored.status = "none"
    /\ \E inp \in ScoreInputs : scored' = [input |-> inp] @@ CalculateAeoScore(inp)
    /\ UNCHANGED <<storeVars, buildVars, batchVars, upserts, recs, viz, swap>>

NextScore == Score

SpecScore == InitScore /\ [][NextScore]_vars

Dimensions(s) ==
    {s.title_optimization, s.attribute_completeness, s.semantic_richness,
     s.structured_data, s.consistency}

\* C17: whenever calculate_aeo_score returns, the total equals the sum of the
\* five dimension values, each dimension lies in 0..20 and the total in 0..100.
C17_TotalIsSumInRange ==
    scored.status = "ok" =>
        /\ scored.total_score = scored.title_optimization + scored.attribute_completeness
                                + scored.semantic_richness + scored.structured_data
                                + scored.consistency
        /\ \A d \in Dimensions(scored) : 0 <= d /\ d <= 20
        /\ 0 <= scored.total_score /\ scored.total_score <= 100

\* C17 witness: a call returned the highest total, with more tags and use cases
\* than the caps of the structured dimension count.
C17_Witness ==
    /\ scored.status = "ok"
    /\ scored.total_score = 100
    /\ scored.input.semantic_tags > 5
    /\ scored.input.use_cases >= 4

\* C18: calculate_aeo_score never raises, whichever enrichment or product
\* fields are missing or present with the value None.
C18_NeverRaises ==
    scored.status # "none" => scored.status = "ok"

\* the scoring table, dimension by dimension
TableTitle(len) ==
    IF len \in 45..60 THEN 20
    ELSE IF len \in (40..44) \cup (61..70) THEN 15
    ELSE IF len # 0 THEN 10
    ELSE 0

TableAttributes(count) ==
    IF count >= 7 THEN 20 ELSE IF count >= 5 THEN 15 ELSE IF count >= 3 THEN 10 ELSE 5

TableDescription(words) ==
    IF words \in 150..200 THEN 10
    ELSE IF words \in (120..149) \cup (201..250) THEN 7
    ELSE IF words # 0 THEN 5
    ELSE 0

TableFaqs(count) ==
    IF count >= 5 THEN 10 ELSE IF count >= 3 THEN 7 ELSE IF count > 0 THEN 5 ELSE 0

\* the consistency checks that fail: the brand is non-empty, is in the raw
\* title and is not in the enriched title; the category is non-empty and is
\* not in the long description
FailedChecks(inp) ==
    (IF inp.brand # "empty" /\ inp.brand_in_raw /\ ~inp.brand_in_enriched THEN 1 ELSE 0)
    + (IF inp.category # "empty" /\ ~inp.category_in_description THEN 1 ELSE 0)

AllPresent(inp) ==
    /\ \A n \in {inp.enriched_title, inp.key_attributes, inp.long_description,
                 inp.faqs, inp.semantic_tags, inp.use_cases} : n >= 0
    /\ inp.raw_title = "value"
    /\ inp.brand \in {"empty", "value"}
    /\ inp.category \in {"empty", "value"}

\* C19: with all fields present, the five dimension values calculate_aeo_score
\* returns are those of the scoring table, for every combination of title
\* length, attribute count, description word count, FAQ count, tag count,
\* use-case count and brand and category containment.
C19_DimensionsFollowTable ==
    (scored.status # "none" /\ AllPresent(scored.input)) =>
        LET inp == scored.input
        IN  /\ scored.status = "ok"
            /\ scored.title_optimization = TableTitle(inp.enriched_title)
            /\ scored.attribute_completeness = TableAttributes(inp.key_attributes)
            /\ scored.semantic_richness
                   = TableDescription(inp.long_description) + TableFaqs(inp.faqs)
            /\ scored.structured_data
                   = Min(2 * inp.semantic_tags, 10) + Min(3 * inp.use_cases, 10)
            /\ scored.consistency = Max(20 - 5 * FailedChecks(inp), 0)

\* C19 witness: a call with a title of 44 characters, 6 attributes, 149 words,
\* 4 FAQs, 6 tags, 3 use cases and both consistency checks failed returned
\* 15 + 15 + 14 + 19 + 10.
C19_Witness ==
    /\ scored.status = "ok"
    /\ AllPresent(scored.input)
    /\ scored.input.enriched_title = 44
    /\ FailedChecks(scored.input) = 2
    /\ scored.total_score = 15 + 15 + 14 + 19 + 10

-----------------------------------------------------------------------------
\* SpecSwap: build_graph_from_db running statement by statement on self.graph
\* while another thread reads self.graph. The method has no lock and builds in
\* the graph object the readers hold.

InitSwap ==
    /\ products \in VizSnapshots
    /\ committed \in StoredTables
    /\ table = committed
    /\ graph = EmptyGraph
    /\ client = TRUE
    /\ builds = 0
    /\ buildStatus = "none"
    /\ pc = "idle"
    /\ batch = NoBatch
    /\ observer = FALSE
    /\ calls = <<>>
    /\ cancelRequested = FALSE
    /\ started = <<>>
    /\ round = NoRound
    /\ summary = NoSummary
    /\ upserts = <<>>
    /\ recs = NoRecs
    /\ viz = NoViz
    /\ swap = NoSwap
    /\ scored = NoScored

\* the call starts: self.graph.clear() empties the graph in place
BeginBuild ==
    /\ swap.phase = "idle"
    /\ builds < MaxBuilds
    /\ \E rels \in FetchAll(table) :
           swap' = [swap EXCEPT !.phase = "cleared", !.previous = graph,
                                !.target = BuildGraphFromDb(graph, products, rels),
                                !.rels = rels]
    /\ graph' = [graph EXCEPT !.nodes = {}, !.edges = {}]
    /\ UNCHANGED <<products, committed, table, client, buildVars, batchVars, upserts,
                   recs, viz, scored>>

\* the next loop of the method runs on self.graph; after the last one the
\* method returns self.graph
BuildStep ==
    /\ swap.phase \notin {"idle", "made_by"}
    /\ \/ /\ swap.phase = "cleared"
          /\ graph' = AddProductNodes(graph, products)
          /\ swap' = [swap EXCEPT !.phase = "products"]
       \/ /\ swap.phase = "products"
          /\ graph' = AddCategoryNodes(graph, products)
          /\ swap' = [swap EXCEPT !.phase = "categories"]
       \/ /\ swap.phase = "categories"
          /\ graph' = AddBrandNodes(graph, products)
          /\ swap' = [swap EXCEPT !.phase = "brands"]
       \/ /\ swap.phase = "brands"
          /\ graph' = AddRelationshipEdges(graph, swap.rels)
          /\ swap' = [swap EXCEPT !.phase = "relationships"]
       \/ /\ swap.phase = "relationships"
          /\ graph' = AddBelongsToEdges(graph, products)
          /\ swap' = [swap EXCEPT !.phase = "belongs_to"]
       \/ /\ swap.phase = "belongs_to"
          /\ graph' = AddMadeByEdges(graph, products)
          /\ swap' = [swap EXCEPT !.phase = "made_by"]
    /\ UNCHANGED <<products, committed, table, client, buildVars, batchVars, upserts,
                   recs, viz, scored>>

\* return self.graph
EndBuild ==
    /\ swap.phase = "made_by"
    /\ swap' = [swap EXCEPT !.phase = "idle"]
    /\ builds' = builds + 1
    /\ buildStatus' = BuildOutcome(products, swap.rels)
    /\ UNCHANGED <<storeVars, batchVars, upserts, recs, viz, scored>>

\* a reader in another thread looks at self.graph (as the export of
\* get_graph_visualization_data without a connection does); one read per run
ReadGraph ==
    /\ swap.reading = "none"
    /\ swap' = [swap EXCEPT !.observed = graph, !.reading = swap.phase]
    /\ UNCHANGED <<storeVars, buildVars, batchVars, upserts, recs, viz, scored>>

NextSwap == BeginBuild \/ BuildStep \/ EndBuild \/ ReadGraph

SpecSwap == InitSwap /\ [][NextSwap]_vars

\* C20: a rebuild is an atomic swap: a reader that looks at the service's
\* graph, also while build_graph_from_db is in progress, sees either the
\* complete graph from before the build or the complete new graph.
C20_RebuildIsAtomicSwap ==
    swap.reading # "none" =>
        \/ swap.observed = swap.previous
        \/ swap.observed = swap.target

-----------------------------------------------------------------------------
\* Persisted records against the edges of the rebuilt graph, and the links of
\* a centered export against the directed edges (SpecViz).

\* the records of the store whose source and target are both products of the
\* snapshot
ProductRecords ==
    {r \in committed : /\ r.source_product_id \in RowIds(products)
                       /\ r.target_product_id \in RowIds(products)}

\* the edge of g that carries the type and the score of record r
EdgeOfRecord(g, r) ==
    \E e \in g.edges :
        /\ e.source = ProductKey(r.source_product_id)
        /\ e.target = ProductKey(r.target_product_id)
        /\ e.relationship_type = r.relationship_type
        /\ e.similarity_score = r.similarity_score

\* C21: after build_graph_from_db every persisted relationship record whose
\* source and target are both products of the snapshot has an edge
\* source -> target in the graph carrying that record's relationship type and
\* score, also when the same ordered pair of products has persisted records of
\* two different relationship types.
C21_EveryRecordHasItsEdge ==
    builds >= 1 => \A r \in ProductRecords : EdgeOfRecord(graph, r)

\* link l is the export of directed edge e: same source, target and type
LinkOfEdge(l, e) ==
    /\ l.source = e.source
    /\ l.target = e.target
    /\ l.type = Link(e).type

\* the links of export v against the directed edges of graph g
MirrorsDirectedEdges(v, g) ==
    /\ \A l \in v.links : \E e \in g.edges : LinkOfEdge(l, e)
    /\ \A e \in g.edges :
           (e.source \in v.nodes /\ e.target \in v.nodes) =>
               \E l \in v.links : LinkOfEdge(l, e)

\* C22: every link of a centered visualization export is a directed edge of
\* the graph with the same source, target and type (no direction is reversed),
\* and every directed edge between two exported nodes is a link of the export,
\* both edges of a mutual pair a -> b, b -> a included.
C22_ExportMirrorsDirectedEdges ==
    [][(/\ viz.status = "none"
        /\ viz'.status = "ok"
        /\ viz'.product_id # 0
        /\ ProductKey(viz'.product_id) \in NodeKeys(graph')) =>
            MirrorsDirectedEdges(viz', graph')]_vars

====
